---- MODULE Spec2Model ----
(***************************************************************************)
(* Release verification pipeline of hcdl: the shasums manifest             *)
(* (src/src/shasums.rs), the detached signature check                      *)
(* (src/src/signature.rs), the zip installer (src/src/install.rs), the     *)
(* binary's pipeline (src/src/main.rs), the staged download                *)
(* (src/src/tmpfile.rs, src/src/client.rs) and the CRC32 check             *)
(* (src/src/crc32.rs).                                                     *)
(*                                                                         *)
(* Text is modelled as sequences of one-character strings, so that         *)
(* str::lines and str::split_whitespace are computed, not assumed.         *)
(***************************************************************************)
EXTENDS Integers, Sequences, FiniteSets, TLC

\* ------------------------------------------------------------------------
\* Bounds of the model
\* ------------------------------------------------------------------------

\* longest manifest text explored character by character
MaxContentLen == 7

\* most subkeys of a public key
MaxSubkeys == 4

\* most entries of a zip archive
MaxEntries == 2

\* longest manifest text the pipeline of main fetches
MaxManifestLen == 5

\* longest manifest text a staged file is checked against
MaxCheckLen == 3

\* most bytes of a file whose CRC32 is checked
MaxFileLen == 4

\* the size of the read buffer of crc32::check, 16 KiB scaled to the files
\* of the model, so that a file takes several reads
BUFFER_SIZE == 2

\* ------------------------------------------------------------------------
\* Text helpers (Rust std: str::lines, str::split_whitespace, str::ends_with)
\* ------------------------------------------------------------------------

\* the characters manifests are built from
Chars == {"a", "b", " ", "\n"}

\* char::is_whitespace restricted to Chars
IsWhitespace(c) == c \in {" ", "\n"}

\* all texts over Chars of length 0..n
TextsUpTo(n) == UNION {[1..k -> Chars] : k \in 0..n}

\* the pieces of s between the line feeds (always at least one piece)
RECURSIVE SplitNewline(_)
SplitNewline(s) ==
    IF \A i \in 1..Len(s) : s[i] # "\n"
    THEN <<s>>
    ELSE LET i == CHOOSE j \in 1..Len(s) :
                      s[j] = "\n" /\ \A k \in 1..(j - 1) : s[k] # "\n"
         IN <<SubSeq(s, 1, i - 1)>> \o SplitNewline(SubSeq(s, i + 1, Len(s)))

\* str::lines: split at line feeds, the final line ending is optional
Lines(s) ==
    LET p == SplitNewline(s)
    IN IF p[Len(p)] = <<>> THEN SubSeq(p, 1, Len(p) - 1) ELSE p

\* str::split_whitespace: the maximal runs of non-whitespace characters
RECURSIVE SplitWhitespace(_)
SplitWhitespace(s) ==
    IF s = <<>> THEN <<>>
    ELSE IF IsWhitespace(s[1]) THEN SplitWhitespace(Tail(s))
    ELSE LET stops == {j \in 1..Len(s) : IsWhitespace(s[j])}
             e == IF stops = {} THEN Len(s) + 1
                  ELSE CHOOSE j \in stops : \A k \in stops : j <= k
         IN <<SubSeq(s, 1, e - 1)>> \o SplitWhitespace(SubSeq(s, e, Len(s)))

\* str::ends_with
EndsWith(s, suffix) ==
    /\ Len(suffix) <= Len(s)
    /\ SubSeq(s, Len(s) - Len(suffix) + 1, Len(s)) = suffix

\* ------------------------------------------------------------------------
\* Shasums (src/src/shasums.rs)
\* ------------------------------------------------------------------------

\* the filenames looked up
Filenames == {<<"a">>, <<"b">>, <<"a", "b">>}

\* the empty HashMap
EmptyHash == [f \in {} |-> <<>>]

\* an insert that keeps the value a key already has (entry().or_insert())
HashInsertKeepFirst(hash, name, digest) ==
    [f \in (DOMAIN hash) \cup {name} |->
        IF f \in DOMAIN hash THEN hash[f] ELSE digest]

\* HashMap::insert: the later insert of a key replaces the earlier
HashInsert(hash, name, digest) ==
    [f \in (DOMAIN hash) \cup {name} |->
        IF f = name THEN digest ELSE hash[f]]

\* the result of parse: the panic of its assert!, or the HashMap
ParsePanic == [panic |-> TRUE, hash |-> EmptyHash]
ParseOk(hash) == [panic |-> FALSE, hash |-> hash]

\* a loop that asserts split.len() >= 2 and so lets extra columns pass
RECURSIVE ParseLinesExtraColumns(_, _)
ParseLinesExtraColumns(lines, hash) ==
    IF lines = <<>> THEN ParseOk(hash)
    ELSE LET split == SplitWhitespace(Head(lines))
         IN IF Len(split) < 2 THEN ParsePanic
            ELSE ParseLinesExtraColumns(Tail(lines),
                                        HashInsert(hash, split[2], split[1]))

\* the loop of parse over the lines, hash being the map built so far
RECURSIVE ParseLines(_, _)
ParseLines(lines, hash) ==
    IF lines = <<>> THEN ParseOk(hash)
    ELSE LET split == SplitWhitespace(Head(lines))
         IN IF Len(split) # 2 THEN ParsePanic
            ELSE ParseLines(Tail(lines), HashInsert(hash, split[2], split[1]))

\* Shasums::parse
parse(text) == ParseLines(Lines(text), EmptyHash)

\* the result of shasum: the panic of parse, None, or Some(digest)
LookupPanic == [kind |-> "Panic", digest |-> <<>>]
LookupNone == [kind |-> "None", digest |-> <<>>]
LookupSome(d) == [kind |-> "Some", digest |-> d]
NotCalled == [kind |-> "NotCalled", digest |-> <<>>]

\* a lookup that takes the entry whose filename ends with the name given
shasumBySuffix(text, name) ==
    LET parsed == parse(text)
    IN IF parsed.panic THEN LookupPanic
       ELSE LET found == {f \in DOMAIN parsed.hash : EndsWith(f, name)}
            IN IF found = {} THEN LookupNone
               ELSE LookupSome(parsed.hash[CHOOSE f \in found : TRUE])

\* Shasums::shasum
shasum(text, name) ==
    LET parsed == parse(text)
    IN IF parsed.panic THEN LookupPanic
       ELSE IF name \in DOMAIN parsed.hash THEN LookupSome(parsed.hash[name])
       ELSE LookupNone

\* ------------------------------------------------------------------------
\* Paths, bytes and CRC32 (std::path::Path, crc32fast, src/src/crc32.rs)
\* ------------------------------------------------------------------------

\* the pieces of a stored name between the slashes
RECURSIVE SplitSlash(_)
SplitSlash(s) ==
    IF \A i \in 1..Len(s) : s[i] # "/"
    THEN <<s>>
    ELSE LET i == CHOOSE j \in 1..Len(s) :
                      s[j] = "/" /\ \A k \in 1..(j - 1) : s[k] # "/"
         IN <<SubSeq(s, 1, i - 1)>> \o SplitSlash(SubSeq(s, i + 1, Len(s)))

\* Path::components of a relative name made of normal and ".." pieces: the
\* empty pieces of repeated and trailing slashes are dropped
Components(s) ==
    LET p == SplitSlash(s)
    IN SelectSeq(p, LAMBDA c : c # <<>>)

\* Option::None of Path::file_name
NoBasename == <<"<none>">>

\* a basename that keeps the directories of the stored name
FileNameWhole(s) == s

\* Path::file_name: the last component when it is a normal one, None when
\* the path is empty, is the root, or ends in ".."
FileName(s) ==
    LET c == Components(s)
    IN IF c = <<>> THEN NoBasename
       ELSE IF c[Len(c)] = <<".", ".">> THEN NoBasename
       ELSE c[Len(c)]

\* the file contents an entry can hold
Contents == {<<1>>, <<1, 2>>}

\* Hasher::update over the bytes read, from the state h: a fold over the
\* bytes in their order (the checksum is kept to 16 bits, within the range
\* of the model checker's integers)
RECURSIVE HasherUpdate(_, _)
HasherUpdate(h, bytes) ==
    IF bytes = <<>> THEN h
    ELSE HasherUpdate((h * 31 + Head(bytes)) % 65536, Tail(bytes))

\* Hasher::new followed by update over the whole content and finalize
Crc32(bytes) == HasherUpdate(7, bytes)

\* the result of crc32::check on a file that was read without I/O error
Crc32Check(bytes, expected) ==
    IF Crc32(bytes) # expected
    THEN [kind |-> "UnexpectedCrc32", got |-> Crc32(bytes), want |-> expected]
    ELSE [kind |-> "Ok", got |-> Crc32(bytes), want |-> expected]

\* ------------------------------------------------------------------------
\* State
\* ------------------------------------------------------------------------

VARIABLES
    content,     \* Shasums.content, the manifest text given to Shasums::new
    filename,    \* the filename passed to Shasums::shasum
    parseOut,    \* what Shasums::parse returned, NotParsed before the call
    shasumOut,   \* what Shasums::shasum returned, NotCalled before the call
    subkeys,     \* public_key.public_subkeys: does verify(subkey) return Ok
    primaryKey,  \* does verify(public_key) return Ok
    tried,       \* the keys Signature::check has called verify with, in order
    sigOut,      \* what Signature::check returned, "Running" before
    sigFault,    \* what is wrong with the signature or the content, if so
    sigPrev,     \* what the call of check before this one returned
    embedGpgKey, \* is the feature embed_gpg_key compiled in
    keyGiven,    \* does the caller pass a key to with_public_key itself
    dataDir,     \* dirs::data_dir(): None, or what is at the path
    keyFile,     \* what is at <data-dir>/<app-name>/hashicorp.asc
    keyReads,    \* can read_file_content read the key file
    keyParses,   \* can from_armor_single parse the public key
    sigParses,   \* can StandaloneSignature::from_bytes parse the signature
    newPc,       \* the step the construction of the Signature is at
    newOut,      \* what Signature::new / with_public_key returned
    archive,     \* the zip entries: stored name, bytes, stored CRC32, mode
    dirIsDir,    \* dir.is_dir()
    zipValid,    \* can ZipArchive::new read the central directory
    instPc,      \* the step install is about to take
    entryIdx,    \* i of the loop of install, counted from 1
    tempFile,    \* the NamedTempFile / TempPath of extract
    destFiles,   \* the files of dir other than the temp file, by name
    crcPassed,   \* the entries for which crc32::check returned Ok
    extracted,   \* extracted_files
    instOut,     \* what install returned and at which step, Running before
    mainPc,      \* the statement main is about to execute
    sigGood,     \* does the fetched signature verify over the manifest
    served,      \* the bytes the download URL serves, one chunk per byte
    doInstall,   \* do_install, the INSTALL flag
    cwdFile,     \* the file called build.filename in the working directory
    mainShasum,  \* shasum, the digest get_shasum returned
    ran,         \* the steps of main that were executed
    passed,      \* the steps of main that succeeded
    exitStatus,  \* the exit status of the process, Alive while it runs
    tmpExists,   \* TmpFile.tmpfile, the NamedTempFile, is on disk
    tmpData,     \* the bytes of TmpFile.tmpfile
    tmpPos,      \* the offset of the handle of TmpFile.tmpfile
    lastOp,      \* the last call on the TmpFile: what it did and returned
    prevOp,      \* the call before the last: a check's verdict, persist's Ok
    finalFile,   \* the file called TmpFile.filename in the working directory
    crcFile,     \* the file crc32::check is given: does it open, its bytes
    crcExpected, \* expected of crc32::check
    crcPc,       \* the step crc32::check is about to take
    crcReads,    \* what reader.read has returned: sizes, ReadErr for Err
    crcHasher,   \* the state of hasher
    crcOut       \* what crc32::check returned, Running before

shasumsVars == <<content, filename, parseOut, shasumOut>>
sigVars == <<subkeys, primaryKey, tried, sigOut, sigFault, sigPrev>>
keyVars == <<embedGpgKey, keyGiven, dataDir, keyFile, keyReads, keyParses,
             sigParses, newPc, newOut>>
installVars == <<archive, dirIsDir, zipValid, instPc, entryIdx, tempFile,
                 destFiles, crcPassed, extracted, instOut>>

mainVars == <<mainPc, sigGood, served, doInstall, cwdFile, mainShasum,
              ran, passed, exitStatus>>

tmpVars == <<tmpExists, tmpData, tmpPos, lastOp, prevOp, finalFile>>
crcVars == <<crcFile, crcExpected, crcPc, crcReads, crcHasher, crcOut>>

vars == <<shasumsVars, sigVars, keyVars, installVars, mainVars, tmpVars,
          crcVars>>

\* what the steps of one component leave alone
notShasums == <<sigVars, keyVars, installVars, mainVars, tmpVars, crcVars>>
notSig == <<shasumsVars, keyVars, installVars, mainVars, tmpVars, crcVars>>
notKey == <<shasumsVars, installVars, mainVars, tmpVars, crcVars>>
notInstall == <<shasumsVars, sigVars, keyVars, mainVars, tmpVars, crcVars>>
notMain == <<parseOut, shasumOut, sigVars, keyVars, installVars, tmpVars,
             crcVars>>
notTmp == <<parseOut, shasumOut, sigVars, keyVars, installVars, mainVars,
            crcVars>>
notCrc == <<shasumsVars, sigVars, keyVars, installVars, mainVars, tmpVars>>

NotParsed == [panic |-> FALSE, hash |-> EmptyHash, called |-> FALSE]
Parsed(r) == [panic |-> r.panic, hash |-> r.hash, called |-> TRUE]

\* the state of a component that takes no part in a run
IdleShasums ==
    /\ content = <<>>
    /\ filename = <<>>
    /\ parseOut = NotParsed
    /\ shasumOut = NotCalled

\* no Signature is being constructed
IdleKey ==
    /\ embedGpgKey = FALSE
    /\ keyGiven = FALSE
    /\ dataDir = "None"
    /\ keyFile = "Missing"
    /\ keyReads = FALSE
    /\ keyParses = FALSE
    /\ sigParses = FALSE
    /\ newPc = "Idle"
    /\ newOut = "Idle"

\* with_public_key has returned Ok(signature)
BuiltKey ==
    /\ embedGpgKey = FALSE
    /\ keyGiven = TRUE
    /\ dataDir = "None"
    /\ keyFile = "Missing"
    /\ keyReads = FALSE
    /\ keyParses = TRUE
    /\ sigParses = TRUE
    /\ newPc = "Built"
    /\ newOut = "Ok"

IdleSig ==
    /\ subkeys = <<>>
    /\ primaryKey = FALSE
    /\ tried = <<>>
    /\ sigOut = "Idle"
    /\ sigFault = "none"
    /\ sigPrev = "none"
    /\ IdleKey

NoTemp == [exists |-> FALSE, data |-> <<>>]
NoFiles == [f \in {} |-> <<>>]
Running == [kind |-> "Running", detail |-> <<>>, at |-> ""]

IdleInstall ==
    /\ archive = <<>>
    /\ dirIsDir = FALSE
    /\ zipValid = FALSE
    /\ instPc = "Idle"
    /\ entryIdx = 0
    /\ tempFile = NoTemp
    /\ destFiles = NoFiles
    /\ crcPassed = {}
    /\ extracted = <<>>
    /\ instOut = Running

\* no call on the TmpFile yet; start is the offset handle returned, seen
\* the bytes the call read
NoOp == [op |-> "none", out |-> "none", detail |-> <<>>, start |-> -1,
         seen |-> <<>>]

\* no call before the last
NoPrev == [op |-> "none", verdict |-> "none"]

\* no file at the final name
NoFinal == [exists |-> FALSE, data |-> <<>>, mode |-> 0]

IdleTmp ==
    /\ tmpExists = FALSE
    /\ tmpData = <<>>
    /\ tmpPos = 0
    /\ lastOp = NoOp
    /\ prevOp = NoPrev
    /\ finalFile = NoFinal

\* crc32::check has not returned
CrcRunning == [kind |-> "Running", got |-> 0, want |-> 0]

IdleCrc ==
    /\ crcFile = [opens |-> FALSE, data |-> <<>>]
    /\ crcExpected = 0
    /\ crcPc = "Idle"
    /\ crcReads = <<>>
    /\ crcHasher = 0
    /\ crcOut = CrcRunning

\* the process has not exited
Alive == -1

NoFile == [exists |-> FALSE, data |-> <<>>]

IdleMain ==
    /\ mainPc = "Idle"
    /\ sigGood = FALSE
    /\ served = <<>>
    /\ doInstall = FALSE
    /\ cwdFile = NoFile
    /\ mainShasum = <<>>
    /\ ran = {}
    /\ passed = {}
    /\ exitStatus = Alive

\* ------------------------------------------------------------------------
\* The manifest library on its own: Shasums::new, then parse and shasum
\* ------------------------------------------------------------------------

\* Shasums::new(text), and the filename a caller will ask for
InitShasums ==
    /\ content \in TextsUpTo(MaxContentLen)
    /\ filename \in Filenames
    /\ parseOut = NotParsed
    /\ shasumOut = NotCalled
    /\ IdleSig
    /\ IdleInstall
    /\ IdleMain
    /\ IdleTmp
    /\ IdleCrc

\* a call of Shasums::parse
ShasumsParse ==
    /\ ~parseOut.called
    /\ parseOut' = Parsed(parse(content))
    /\ UNCHANGED <<content, filename, shasumOut, notShasums>>

\* a call of Shasums::shasum(filename)
ShasumsShasum ==
    /\ shasumOut = NotCalled
    /\ shasumOut' = shasum(content, filename)
    /\ UNCHANGED <<content, filename, parseOut, notShasums>>

NextShasums == ShasumsParse \/ ShasumsShasum

SpecShasums == InitShasums /\ [][NextShasums]_vars

\* ------------------------------------------------------------------------
\* Signature::check (src/src/signature.rs), one verify call per step
\* ------------------------------------------------------------------------

\* the entry of tried that stands for the primary key
Primary == 0

\* a Signature whose key has up to MaxSubkeys subkeys; check has been entered
\* what can be wrong with the signature or with the content for every key
Faults == {"none", "corrupted signature", "altered content"}

\* the keys a Signature can hold: none validates when the signature or the
\* content is at fault
KeysOfSignature ==
    /\ subkeys \in UNION {[1..n -> BOOLEAN] : n \in 0..MaxSubkeys}
    /\ primaryKey \in BOOLEAN
    /\ sigFault \in Faults
    /\ sigFault # "none" =>
          ~primaryKey /\ \A i \in DOMAIN subkeys : ~subkeys[i]

\* signature.verify(key, shasums) for a key that validates or not: Ok, or
\* the error that tells why not
Verify(valid) ==
    IF valid THEN "Ok"
    ELSE IF sigFault = "none" THEN "wrong key" ELSE sigFault

InitSig ==
    /\ KeysOfSignature
    /\ tried = <<>>
    /\ sigOut = "Running"
    /\ sigPrev = "none"
    /\ BuiltKey
    /\ IdleShasums
    /\ IdleInstall
    /\ IdleMain
    /\ IdleTmp
    /\ IdleCrc

\* a round that returns the error of the first subkey that fails
SigVerifySubkeyNoContinue ==
    /\ sigOut = "Running"
    /\ Len(tried) < Len(subkeys)
    /\ tried' = Append(tried, Len(tried) + 1)
    /\ sigOut' = IF Verify(subkeys[Len(tried) + 1]) = "Ok" THEN "Ok"
                 ELSE "Couldn't verify signature"
    /\ UNCHANGED <<subkeys, primaryKey, sigFault, sigPrev, notSig>>

\* one round of the loop over public_subkeys: Err continues, Ok returns Ok
SigVerifySubkey ==
    /\ sigOut = "Running"
    /\ Len(tried) < Len(subkeys)
    /\ tried' = Append(tried, Len(tried) + 1)
    /\ sigOut' = IF Verify(subkeys[Len(tried) + 1]) = "Ok" THEN "Ok"
                 ELSE "Running"
    /\ UNCHANGED <<subkeys, primaryKey, sigFault, sigPrev, notSig>>

\* a last attempt that returns the error of verify
SigVerifyPrimaryPassesError ==
    /\ sigOut = "Running"
    /\ Len(tried) = Len(subkeys)
    /\ tried' = Append(tried, Primary)
    /\ sigOut' = Verify(primaryKey)
    /\ UNCHANGED <<subkeys, primaryKey, sigFault, sigPrev, notSig>>

\* the last attempt, against the primary key, after the loop has ended:
\* Err(_) => Err(anyhow!("Couldn't verify signature"))
SigVerifyPrimary ==
    /\ sigOut = "Running"
    /\ Len(tried) = Len(subkeys)
    /\ tried' = Append(tried, Primary)
    /\ sigOut' = IF Verify(primaryKey) = "Ok" THEN "Ok"
                 ELSE "Couldn't verify signature"
    /\ UNCHANGED <<subkeys, primaryKey, sigFault, sigPrev, notSig>>

\* a second call that finds the subkeys gone
SigCheckAgainWithoutSubkeys ==
    /\ sigOut \in {"Ok", "Couldn't verify signature"}
    /\ sigPrev' = sigOut
    /\ tried' = <<>>
    /\ sigOut' = "Running"
    /\ subkeys' = <<>>
    /\ UNCHANGED <<primaryKey, sigFault, notSig>>

\* check(&self, shasums) is called again on the same manifest: the call
\* borrows the Signature and leaves it as it was
SigCheckAgain ==
    /\ sigOut \in {"Ok", "Couldn't verify signature"}
    /\ sigPrev' = sigOut
    /\ tried' = <<>>
    /\ sigOut' = "Running"
    /\ UNCHANGED <<subkeys, primaryKey, sigFault, notSig>>

NextSig ==
    \/ SigVerifySubkey
    \/ SigVerifyPrimary
    \/ SigCheckAgain

SpecSig == InitSig /\ [][NextSig]_vars

\* does the key that stands at place i of tried validate the signature
Validates(k) == IF k = Primary THEN primaryKey ELSE subkeys[k]

\* C5: check tries the subkeys in their stored order, returns Ok at the
\* first that validates without trying any later key, tries the primary key
\* only after every subkey has failed, and fails only when the primary key
\* fails too; so it returns Ok exactly when some key validates
C5_SubkeysThenPrimary ==
    /\ Len(tried) <= Len(subkeys) + 1
    /\ \A i \in 1..Len(tried) :
          /\ tried[i] = IF i <= Len(subkeys) THEN i ELSE Primary
          /\ i < Len(tried) => ~Validates(tried[i])
    /\ sigOut = "Running" => \A i \in 1..Len(tried) : ~Validates(tried[i])
    /\ sigOut = "Ok" =>
          /\ tried # <<>>
          /\ Validates(tried[Len(tried)])
    /\ sigOut = "Couldn't verify signature" =>
          /\ Len(tried) = Len(subkeys) + 1
          /\ ~primaryKey
          /\ \A k \in 1..Len(subkeys) : ~subkeys[k]
    /\ sigOut # "Running" =>
          (sigOut = "Ok" <=>
              (primaryKey \/ \E k \in 1..Len(subkeys) : subkeys[k]))

\* the second of three subkeys validates: Ok after two attempts
C5_Witness ==
    /\ Len(subkeys) = 3
    /\ ~subkeys[1] /\ subkeys[2]
    /\ sigOut = "Ok"
    /\ tried = <<1, 2>>

\* Signature::check as a function of the keys: the loop over the subkeys,
\* then the primary key
RECURSIVE SigCheck(_, _)
SigCheck(keys, primary) ==
    IF keys = <<>>
    THEN IF Verify(primary) = "Ok" THEN "Ok" ELSE "Couldn't verify signature"
    ELSE IF Verify(Head(keys)) = "Ok" THEN "Ok"
    ELSE SigCheck(Tail(keys), primary)

\* check has returned
SigReturned == sigOut \in {"Ok", "Couldn't verify signature"}

\* the subkeys in the order p
Reordered(p) == [i \in DOMAIN subkeys |-> subkeys[p[i]]]

\* C25: what check returns is what it returns for every other order of
\* the same subkeys, Ok exactly when a subkey or the primary key validates;
\* and a second call on the same Signature and manifest returns what the
\* first returned
C25_OrderIndependent ==
    /\ SigReturned =>
          /\ \A p \in Permutations(DOMAIN subkeys) :
                SigCheck(Reordered(p), primaryKey) = sigOut
          /\ sigOut = "Ok" <=>
                (primaryKey \/ \E i \in DOMAIN subkeys : subkeys[i])
    /\ (SigReturned /\ sigPrev # "none") => sigOut = sigPrev

\* a second call has returned Ok by a subkey that is neither first nor last
C25_Witness ==
    /\ subkeys = <<FALSE, TRUE, FALSE>>
    /\ ~primaryKey
    /\ sigPrev = "Ok"
    /\ sigOut = "Ok"

\* C26: the error of a check that no key validates is one value, whatever
\* the number of subkeys, the keys tried and the reason why each verify
\* failed
C26_OneVerificationError ==
    sigOut \notin {"Idle", "Running", "Ok"}
        => sigOut = "Couldn't verify signature"

\* no key validates a corrupted signature, two subkeys were tried
C26_Witness ==
    /\ sigOut = "Couldn't verify signature"
    /\ sigFault = "corrupted signature"
    /\ tried = <<1, 2, Primary>>

\* ------------------------------------------------------------------------
\* The construction of a Signature (src/src/signature.rs): Signature::new,
\* get_public_key, get_public_key_path, with_public_key
\* ------------------------------------------------------------------------

\* the messages of the errors of the construction
NoDataDir == "Couldn't find shared data directory"
NoDataDirExists == "Data directory does not exist or is not a directory"
NoKeyFile == "GPG key file does not exist or it not a file"
KeyIoError == "io error"
KeyParseError == "pgp error: public key"
SigParseError == "pgp error: signature"

InitSigNew ==
    /\ embedGpgKey \in BOOLEAN
    /\ keyGiven \in BOOLEAN
    /\ dataDir \in {"None", "Missing", "NotDir", "Dir"}
    /\ keyFile \in {"Missing", "NotFile", "File"}
    /\ dataDir # "Dir" => keyFile = "Missing"
    /\ keyReads \in BOOLEAN
    /\ keyFile # "File" => ~keyReads
    /\ keyParses \in BOOLEAN
    /\ sigParses \in BOOLEAN
    /\ newPc = "New"
    /\ newOut = "Running"
    /\ subkeys \in {<<>>, <<FALSE>>, <<TRUE>>}
    /\ primaryKey \in BOOLEAN
    /\ sigFault = "none"
    /\ tried = <<>>
    /\ sigOut = "Idle"
    /\ sigPrev = "none"
    /\ IdleShasums
    /\ IdleInstall
    /\ IdleMain
    /\ IdleTmp
    /\ IdleCrc

\* the construction returns Err(message)
NewFails(message) ==
    /\ newOut' = message
    /\ newPc' = "Failed"

\* the construction goes on to the step
NewGoes(step) ==
    /\ newPc' = step
    /\ UNCHANGED newOut

\* what no step of the construction changes
keyInputs == <<embedGpgKey, keyGiven, dataDir, keyFile, keyReads, keyParses,
               sigParses, sigVars, notKey>>

\* the caller has a key of its own and calls with_public_key
SigKeyGiven ==
    /\ newPc = "New"
    /\ keyGiven
    /\ NewGoes("WithPublicKey")
    /\ UNCHANGED keyInputs

\* Signature::new calls get_public_key: the compiled-in key with the
\* feature embed_gpg_key, get_public_key_path without
SigNew ==
    /\ newPc = "New"
    /\ ~keyGiven
    /\ IF embedGpgKey THEN NewGoes("WithPublicKey") ELSE NewGoes("DataDir")
    /\ UNCHANGED keyInputs

\* dirs::data_dir().ok_or_else(..)?
KeyPathDataDir ==
    /\ newPc = "DataDir"
    /\ IF dataDir = "None" THEN NewFails(NoDataDir)
       ELSE NewGoes("DataDirExists")
    /\ UNCHANGED keyInputs

\* a path that goes on to the key file without a look at the data directory
KeyPathDataDirExistsUnchecked ==
    /\ newPc = "DataDirExists"
    /\ NewGoes("KeyFile")
    /\ UNCHANGED keyInputs

\* if !path.exists() || !path.is_dir() { return Err(..) }
KeyPathDataDirExists ==
    /\ newPc = "DataDirExists"
    /\ IF dataDir # "Dir" THEN NewFails(NoDataDirExists)
       ELSE NewGoes("KeyFile")
    /\ UNCHANGED keyInputs

\* the key file under the data directory:
\* if !path.exists() || !path.is_file() { return Err(..) }
KeyPathKeyFile ==
    /\ newPc = "KeyFile"
    /\ IF keyFile # "File" THEN NewFails(NoKeyFile)
       ELSE NewGoes("Read")
    /\ UNCHANGED keyInputs

\* read_file_content(&path)?
ReadFileContent ==
    /\ newPc = "Read"
    /\ IF ~keyReads THEN NewFails(KeyIoError)
       ELSE NewGoes("WithPublicKey")
    /\ UNCHANGED keyInputs

\* a construction that parses the signature before the key
SigWithPublicKeySignatureFirst ==
    /\ newPc = "WithPublicKey"
    /\ IF ~sigParses THEN NewFails(SigParseError)
       ELSE IF ~keyParses THEN NewFails(KeyParseError)
       ELSE newOut' = "Ok" /\ newPc' = "Built"
    /\ UNCHANGED keyInputs

\* with_public_key: from_armor_single(..)?, then from_bytes(..)?, then Ok
SigWithPublicKey ==
    /\ newPc = "WithPublicKey"
    /\ IF ~keyParses THEN NewFails(KeyParseError)
       ELSE IF ~sigParses THEN NewFails(SigParseError)
       ELSE newOut' = "Ok" /\ newPc' = "Built"
    /\ UNCHANGED keyInputs

\* the caller calls check on the Signature it was given
SigCheckCall ==
    /\ newPc = "Built"
    /\ sigOut = "Idle"
    /\ sigOut' = "Running"
    /\ UNCHANGED <<subkeys, primaryKey, tried, sigFault, sigPrev, notSig>>

NextSigNew ==
    \/ SigKeyGiven
    \/ SigNew
    \/ KeyPathDataDir
    \/ KeyPathDataDirExists
    \/ KeyPathKeyFile
    \/ ReadFileContent
    \/ SigWithPublicKey
    \/ SigCheckCall
    \/ SigVerifySubkey
    \/ SigVerifyPrimary
    \/ SigCheckAgain

SpecSigNew == InitSigNew /\ [][NextSigNew]_vars

\* with_public_key was called
WithPublicKeyCalled ==
    \/ newPc \in {"WithPublicKey", "Built"}
    \/ newPc = "Failed" /\ newOut \in {KeyParseError, SigParseError}

\* C23: when the key or the signature does not parse, with_public_key
\* returns an error and no Signature: check is never called; the error is
\* the one of the key when the key does not parse, whatever the signature
\* is, and it is not the error of a failed verification
C23_ParseErrorsAtConstruction ==
    /\ (~keyParses \/ ~sigParses) =>
          /\ newPc # "Built"
          /\ sigOut = "Idle"
          /\ tried = <<>>
    /\ (newPc = "Failed" /\ WithPublicKeyCalled) =>
          /\ newOut = IF ~keyParses THEN KeyParseError ELSE SigParseError
          /\ ~keyParses \/ ~sigParses
    /\ newPc = "Failed" => newOut # "Couldn't verify signature"
    /\ sigOut # "Idle" => keyParses /\ sigParses /\ newPc = "Built"

\* neither the key nor the signature parses
C23_Witness ==
    /\ keyGiven
    /\ ~keyParses
    /\ ~sigParses
    /\ newPc = "Failed"
    /\ newOut = KeyParseError

\* what Signature::new returns, by the first check that fails
NewResult ==
    IF embedGpgKey THEN
        IF ~keyParses THEN KeyParseError
        ELSE IF ~sigParses THEN SigParseError ELSE "Ok"
    ELSE IF dataDir = "None" THEN NoDataDir
    ELSE IF dataDir # "Dir" THEN NoDataDirExists
    ELSE IF keyFile # "File" THEN NoKeyFile
    ELSE IF ~keyReads THEN KeyIoError
    ELSE IF ~keyParses THEN KeyParseError
    ELSE IF ~sigParses THEN SigParseError
    ELSE "Ok"

LineStarts(t) == {p \in 1..Len(t) : p = 1 \/ t[p - 1] = "\n"}

\* the position of the last character of the line beginning at p
LineEnd(t, p) ==
    LET feeds == {j \in p..Len(t) : t[j] = "\n"}
    IN IF feeds = {} THEN Len(t)
       ELSE (CHOOSE j \in feeds : \A k \in feeds : j <= k) - 1

\* the positions at which a column of the line beginning at p begins
ColumnStarts(t, p) ==
    {i \in p..LineEnd(t, p) :
        ~IsWhitespace(t[i]) /\ (i = p \/ IsWhitespace(t[i - 1]))}

\* the column beginning at position i
ColumnAt(t, i) ==
    LET stops == {j \in i..Len(t) : IsWhitespace(t[j])}
        e == IF stops = {} THEN Len(t)
             ELSE (CHOOSE j \in stops : \A k \in stops : j <= k) - 1
    IN SubSeq(t, i, e)

\* the number of columns of the line beginning at p
ColumnCount(t, p) == Cardinality(ColumnStarts(t, p))

\* the first (digest) and the last (filename) column of the line at p
DigestOf(t, p) ==
    ColumnAt(t, CHOOSE i \in ColumnStarts(t, p) :
                    \A k \in ColumnStarts(t, p) : i <= k)
FilenameOf(t, p) ==
    ColumnAt(t, CHOOSE i \in ColumnStarts(t, p) :
                    \A k \in ColumnStarts(t, p) : i >= k)

\* every line has exactly two columns
WellFormed(t) == \A p \in LineStarts(t) : ColumnCount(t, p) = 2

\* the lines whose filename column is f
LinesNaming(t, f) ==
    {p \in LineStarts(t) : ColumnCount(t, p) = 2 /\ FilenameOf(t, p) = f}

\* no filename stands on two lines
DistinctFilenames(t) ==
    \A p, q \in LineStarts(t) :
        (ColumnCount(t, p) = 2 /\ ColumnCount(t, q) = 2 /\ p # q)
            => FilenameOf(t, p) # FilenameOf(t, q)

\* some line has one column, or three or more
HasBadLine(t) ==
    \E p \in LineStarts(t) : ColumnCount(t, p) = 1 \/ ColumnCount(t, p) >= 3

\* ------------------------------------------------------------------------
\* Properties of the manifest library
\* ------------------------------------------------------------------------

\* C7: a manifest with a line of one column, or of three or more, makes
\* parse fail as malformed, wherever the line stands and whichever filename
\* is looked up, and no partial mapping comes back
C7_MalformedLineFails ==
    HasBadLine(content) =>
        /\ parseOut.called => (parseOut.panic /\ parseOut.hash = EmptyHash)
        /\ shasumOut # NotCalled => shasumOut = LookupPanic

\* the bad line stands after a good first line, and both calls have failed
C7_Witness ==
    /\ HasBadLine(content)
    /\ 1 \in LineStarts(content) /\ ColumnCount(content, 1) = 2
    /\ filename = FilenameOf(content, 1)
    /\ parseOut.called /\ parseOut.panic
    /\ shasumOut = LookupPanic

\* C8 (as claimed): blank and whitespace-only lines are ignored, so a
\* manifest whose other lines all have two columns parses without failure
\* to the mapping of those lines, and the empty manifest to the empty one
C8_BlankLinesIgnored ==
    (/\ parseOut.called
     /\ \A p \in LineStarts(content) : ColumnCount(content, p) \in {0, 2})
        => /\ ~parseOut.panic
           /\ DOMAIN parseOut.hash =
                {FilenameOf(content, p) : p \in
                    {q \in LineStarts(content) : ColumnCount(content, q) = 2}}

\* C9: in a well-formed manifest with distinct filenames, shasum(f) is the
\* digest standing on the line of f, and None when no line has f as its
\* filename column
C9_LookupExact ==
    (WellFormed(content) /\ DistinctFilenames(content)) =>
        /\ shasumOut # NotCalled =>
              IF LinesNaming(content, filename) = {}
              THEN shasumOut = LookupNone
              ELSE \E p \in LinesNaming(content, filename) :
                      shasumOut = LookupSome(DigestOf(content, p))
        /\ parseOut.called =>
              /\ ~parseOut.panic
              /\ DOMAIN parseOut.hash =
                    {FilenameOf(content, p) : p \in LineStarts(content)}
              /\ \A p \in LineStarts(content) :
                    parseOut.hash[FilenameOf(content, p)] = DigestOf(content, p)

\* the filename found stands on the second of two lines
C9_Witness ==
    /\ WellFormed(content) /\ DistinctFilenames(content)
    /\ Cardinality(LineStarts(content)) = 2
    /\ \E p \in LinesNaming(content, filename) :
          p # 1 /\ shasumOut = LookupSome(DigestOf(content, p))
    /\ parseOut.called

\* the filename looked up stands on several lines with different digests
DuplicateWithDifferentDigests ==
    /\ WellFormed(content)
    /\ \E p, q \in LinesNaming(content, filename) :
          DigestOf(content, p) # DigestOf(content, q)

StoredNames ==
    {<<"t">>, <<"a", "/", "t">>, <<"x">>, <<".", ".">>}

\* ZipFile::unix_mode is None
NoMode == -1

\* the mode of a fresh NamedTempFile (0o600) and the one entries carry (0o755)
TempMode == 384
ExecMode == 493

\* the entries an archive can hold
Entries ==
    [name : StoredNames, data : Contents,
     crc : {Crc32(d) : d \in Contents}, mode : {NoMode, ExecMode}]

\* a file that was in dir before the run
OldFile == [data |-> <<2, 2>>, by |-> 0, mode |-> 420, modeBy |-> 0]

InitInstall ==
    /\ archive \in UNION {[1..n -> Entries] : n \in 0..MaxEntries}
    /\ dirIsDir \in BOOLEAN
    /\ zipValid \in BOOLEAN
    /\ instPc = "CheckDir"
    /\ entryIdx = 0
    /\ tempFile = NoTemp
    /\ destFiles = IF dirIsDir THEN [f \in {<<"t">>} |-> OldFile] ELSE NoFiles
    /\ crcPassed = {}
    /\ extracted = <<>>
    /\ instOut = Running
    /\ IdleShasums
    /\ IdleSig
    /\ IdleMain
    /\ IdleTmp
    /\ IdleCrc

\* install returns Err(kind(detail)); a temp file not handed over is dropped
InstallFails(kind, detail) ==
    /\ instOut' = [kind |-> kind, detail |-> detail, at |-> instPc]
    /\ instPc' = "Done"

\* an install that goes on to the archive whatever dir is
InstallCheckDirSkipped ==
    /\ instPc = "CheckDir"
    /\ instPc' = "OpenArchive"
    /\ UNCHANGED <<archive, dirIsDir, zipValid, entryIdx, tempFile,
                   destFiles, crcPassed, extracted, instOut,
                   notInstall>>

\* if !dir.is_dir() { return Err(NoInstallDir(dir)) }
InstallCheckDir ==
    /\ instPc = "CheckDir"
    /\ IF dirIsDir
       THEN instPc' = "OpenArchive" /\ UNCHANGED instOut
       ELSE InstallFails("NoInstallDir", <<"dir">>)
    /\ UNCHANGED <<archive, dirIsDir, zipValid, entryIdx, tempFile,
                   destFiles, crcPassed, extracted,
                   notInstall>>

\* ZipArchive::new(zipfile)?, and the entry into the loop over 0..zip.len()
InstallOpenArchive ==
    /\ instPc = "OpenArchive"
    /\ IF ~zipValid
       THEN InstallFails("ZipIndex", <<>>) /\ UNCHANGED entryIdx
       ELSE IF archive = <<>>
       THEN /\ instOut' = [kind |-> "Ok", detail |-> extracted,
                            at |-> instPc]
            /\ instPc' = "Done"
            /\ UNCHANGED entryIdx
       ELSE /\ instPc' = "Basename"
            /\ entryIdx' = 1
            /\ UNCHANGED instOut
    /\ UNCHANGED <<archive, dirIsDir, zipValid, tempFile, destFiles,
                   crcPassed, extracted,
                   notInstall>>

\* zip.by_index(i)? and the basename of file.name()
InstallBasename ==
    /\ instPc = "Basename"
    /\ \E readOk \in BOOLEAN :
          IF ~readOk THEN InstallFails("ZipIndex", <<>>)
          ELSE IF FileName(archive[entryIdx].name) = NoBasename
          THEN InstallFails("ZipFileBasename", archive[entryIdx].name)
          ELSE instPc' = "CreateTemp" /\ UNCHANGED instOut
    /\ UNCHANGED <<archive, dirIsDir, zipValid, entryIdx, tempFile,
                   destFiles, crcPassed, extracted,
                   notInstall>>

\* extract: NamedTempFile::new_in(dir)?; its io::Error converts into
\* InstallError::SetPermissions, the only variant made from io::Error
ExtractCreateTemp ==
    /\ instPc = "CreateTemp"
    /\ \E ioOk \in BOOLEAN :
          IF ioOk
          THEN /\ tempFile' = [exists |-> TRUE, data |-> <<>>]
               /\ instPc' = "Copy"
               /\ UNCHANGED instOut
          ELSE InstallFails("SetPermissions", <<"io">>) /\ UNCHANGED tempFile
    /\ UNCHANGED <<archive, dirIsDir, zipValid, entryIdx, destFiles,
                   crcPassed, extracted,
                   notInstall>>

\* extract: io::copy(&mut zipfile, &mut tmpfile)? and into_temp_path
ExtractCopy ==
    /\ instPc = "Copy"
    /\ \E ioOk \in BOOLEAN :
          IF ioOk
          THEN /\ tempFile' = [exists |-> TRUE, data |-> archive[entryIdx].data]
               /\ instPc' = "Crc"
               /\ UNCHANGED instOut
          ELSE InstallFails("SetPermissions", <<"io">>) /\ tempFile' = NoTemp
    /\ UNCHANGED <<archive, dirIsDir, zipValid, entryIdx, destFiles,
                   crcPassed, extracted,
                   notInstall>>

\* a check whose UnexpectedCrc32 is dropped instead of returned
ExtractCrcIgnored ==
    /\ instPc = "Crc"
    /\ \E ioOk \in BOOLEAN :
          LET r == Crc32Check(tempFile.data, archive[entryIdx].crc)
          IN IF ~ioOk
             THEN /\ InstallFails("Crc32", <<"IoError">>)
                  /\ tempFile' = NoTemp
                  /\ UNCHANGED crcPassed
             ELSE /\ crcPassed' = IF r.kind = "Ok"
                                  THEN crcPassed \cup {entryIdx}
                                  ELSE crcPassed
                  /\ instPc' = "Persist"
                  /\ UNCHANGED <<instOut, tempFile>>
    /\ UNCHANGED <<archive, dirIsDir, zipValid, entryIdx, destFiles,
                   extracted, notInstall>>

\* extract: crc32::check(&tmpfile, zipfile.crc32())?
ExtractCrc ==
    /\ instPc = "Crc"
    /\ \E ioOk \in BOOLEAN :
          LET r == Crc32Check(tempFile.data, archive[entryIdx].crc)
          IN IF ~ioOk
             THEN /\ InstallFails("Crc32", <<"IoError">>)
                  /\ tempFile' = NoTemp
                  /\ UNCHANGED crcPassed
             ELSE IF r.kind = "Ok"
             THEN /\ crcPassed' = crcPassed \cup {entryIdx}
                  /\ instPc' = "Persist"
                  /\ UNCHANGED <<instOut, tempFile>>
             ELSE /\ InstallFails("Crc32", <<r.kind, r.got, r.want>>)
                  /\ tempFile' = NoTemp
                  /\ UNCHANGED crcPassed
    /\ UNCHANGED <<archive, dirIsDir, zipValid, entryIdx, destFiles,
                   extracted,
                   notInstall>>

\* a rename that leaves the file called name alone in dir
WithFileAlone(files, name, file) == [f \in {name} |-> file]

\* the files of dir with the file called name created or replaced
WithFile(files, name, file) ==
    [f \in (DOMAIN files) \cup {name} |-> IF f = name THEN file ELSE files[f]]

\* a persist that leaves alone a file the run has already put at dest
InstallPersistKeepsFirst ==
    /\ instPc = "Persist"
    /\ \E ioOk \in BOOLEAN :
          IF ioOk
          THEN LET name == FileName(archive[entryIdx].name)
               IN /\ destFiles' =
                        IF name \in DOMAIN destFiles /\ destFiles[name].by # 0
                        THEN destFiles
                        ELSE WithFile(destFiles, name,
                                      [data |-> tempFile.data,
                                       by |-> entryIdx,
                                       mode |-> TempMode, modeBy |-> 0])
                  /\ tempFile' = NoTemp
                  /\ instPc' = "Permissions"
                  /\ UNCHANGED instOut
          ELSE /\ InstallFails("PathPersist", <<>>)
               /\ UNCHANGED <<tempFile, destFiles>>
    /\ UNCHANGED <<archive, dirIsDir, zipValid, entryIdx, crcPassed,
                   extracted,
                   notInstall>>

\* tmpfile.persist(&dest)?: the rename of the temp file to dir/basename; on
\* failure the PathPersistError keeps the TempPath
InstallPersist ==
    /\ instPc = "Persist"
    /\ \E ioOk \in BOOLEAN :
          IF ioOk
          THEN /\ destFiles' =
                     WithFile(destFiles, FileName(archive[entryIdx].name),
                              [data |-> tempFile.data, by |-> entryIdx,
                               mode |-> TempMode, modeBy |-> 0])
               /\ tempFile' = NoTemp
               /\ instPc' = "Permissions"
               /\ UNCHANGED instOut
          ELSE /\ InstallFails("PathPersist", <<>>)
               /\ UNCHANGED <<tempFile, destFiles>>
    /\ UNCHANGED <<archive, dirIsDir, zipValid, entryIdx, crcPassed,
                   extracted,
                   notInstall>>

\* a push that lists a basename once
InstallPushOnce ==
    /\ extracted' =
          IF \E k \in DOMAIN extracted :
                 extracted[k] = FileName(archive[entryIdx].name)
          THEN extracted
          ELSE Append(extracted, FileName(archive[entryIdx].name))
    /\ IF entryIdx < Len(archive)
       THEN /\ entryIdx' = entryIdx + 1
            /\ instPc' = "Basename"
            /\ UNCHANGED instOut
       ELSE /\ instOut' = [kind |-> "Ok", detail |-> extracted',
                            at |-> instPc]
            /\ instPc' = "Done"
            /\ UNCHANGED entryIdx

\* extracted_files.push(filename) and the next round of the loop, or Ok
InstallPush ==
    /\ extracted' = Append(extracted, FileName(archive[entryIdx].name))
    /\ IF entryIdx < Len(archive)
       THEN /\ entryIdx' = entryIdx + 1
            /\ instPc' = "Basename"
            /\ UNCHANGED instOut
       ELSE /\ instOut' = [kind |-> "Ok", detail |-> extracted',
                            at |-> instPc]
            /\ instPc' = "Done"
            /\ UNCHANGED entryIdx

\* if let Some(mode) = file.unix_mode() { fs::set_permissions(&dest, mode)? }
InstallSetPermissions ==
    /\ instPc = "Permissions"
    /\ LET name == FileName(archive[entryIdx].name)
           mode == archive[entryIdx].mode
       IN IF mode = NoMode
          THEN InstallPush /\ UNCHANGED destFiles
          ELSE \E ioOk \in BOOLEAN :
                  IF ioOk
                  THEN /\ destFiles' =
                             WithFile(destFiles, name,
                                      [data |-> destFiles[name].data,
                                       by |-> destFiles[name].by,
                                       mode |-> mode, modeBy |-> entryIdx])
                       /\ InstallPush
                  ELSE /\ InstallFails("SetPermissions", <<"io">>)
                       /\ UNCHANGED <<destFiles, entryIdx, extracted>>
    /\ UNCHANGED <<archive, dirIsDir, zipValid, tempFile, crcPassed,
                   notInstall>>

NextInstall ==
    \/ InstallCheckDir
    \/ InstallOpenArchive
    \/ InstallBasename
    \/ ExtractCreateTemp
    \/ ExtractCopy
    \/ ExtractCrc
    \/ InstallPersist
    \/ InstallSetPermissions

SpecInstall == InitInstall /\ [][NextInstall]_vars

\* C1: a file that the run has put at dir/basename, or whose mode the run
\* has set, belongs to an entry whose temp file passed crc32::check against
\* the stored CRC32; the persist comes after the check and the change of
\* mode after the persist of the same entry
C1_PersistAfterCrc ==
    /\ \A f \in DOMAIN destFiles :
          /\ destFiles[f].by # 0 =>
                /\ destFiles[f].by \in crcPassed
                /\ Crc32(destFiles[f].data) = archive[destFiles[f].by].crc
                /\ f = FileName(archive[destFiles[f].by].name)
          /\ destFiles[f].modeBy # 0 =>
                /\ destFiles[f].modeBy = destFiles[f].by
                /\ destFiles[f].modeBy \in crcPassed
    /\ instPc \in {"Persist", "Permissions"} => entryIdx \in crcPassed
    /\ \A i \in crcPassed : Crc32(archive[i].data) = archive[i].crc

\* one entry failed its check after an earlier one was persisted with its
\* mode set
C1_Witness ==
    /\ instOut.kind = "Crc32" /\ instOut.detail[1] = "UnexpectedCrc32"
    /\ entryIdx = 2
    /\ \E f \in DOMAIN destFiles :
          destFiles[f].by = 1 /\ destFiles[f].modeBy = 1
    /\ \A f \in DOMAIN destFiles : destFiles[f].by # 2

\* C15: while dir is not a directory install does nothing but return
\* NoInstallDir(dir): the archive is not opened, no entry is read, no temp
\* file and no file is made, whether the archive is valid or not
C15_NoInstallDirFirst ==
    ~dirIsDir =>
        /\ instPc \in {"CheckDir", "Done"}
        /\ instPc = "Done" =>
              instOut = [kind |-> "NoInstallDir", detail |-> <<"dir">>,
                         at |-> "CheckDir"]
        /\ entryIdx = 0
        /\ tempFile = NoTemp
        /\ destFiles = NoFiles
        /\ crcPassed = {}
        /\ extracted = <<>>

\* neither the destination nor the archive is valid
C15_Witness ==
    /\ ~dirIsDir
    /\ ~zipValid
    /\ Len(archive) = 2
    /\ instPc = "Done"
    /\ instOut.kind = "NoInstallDir"

\* what follows the last slash of a stored name
FinalComponent(stored) ==
    LET slashes == {i \in 1..Len(stored) : stored[i] = "/"}
        last == IF slashes = {} THEN 0
                ELSE CHOOSE i \in slashes : \A j \in slashes : i >= j
    IN SubSeq(stored, last + 1, Len(stored))

\* the stored name ends in a name of a file
HasFinalComponent(stored) ==
    FinalComponent(stored) \notin {<<>>, <<".">>, <<".", ".">>}

\* a name of a direct child of dir
DirectChild(f) ==
    /\ f \notin {<<>>, <<".">>, <<".", ".">>}
    /\ \A i \in 1..Len(f) : f[i] # "/"

\* the steps of extract, of the persist and of the permissions of an entry
StagingSteps == {"CreateTemp", "Copy", "Crc", "Persist"}

\* C16: a file the run has persisted is a direct child of dir called by
\* what follows the last slash of its entry's stored name; an entry that
\* was read and whose stored name ends in no file name makes install return
\* ZipFileBasename(stored name) from the basename step, with no temp file
\* made for it
C16_PersistedAtBasename ==
    /\ \A f \in DOMAIN destFiles :
          destFiles[f].by # 0 =>
             /\ DirectChild(f)
             /\ f = FinalComponent(archive[destFiles[f].by].name)
    /\ (/\ entryIdx >= 1
        /\ ~HasFinalComponent(archive[entryIdx].name)
        /\ instPc # "Basename")
          => /\ instPc = "Done"
             /\ instOut.at = "Basename"
             /\ tempFile = NoTemp
             /\ \A f \in DOMAIN destFiles : destFiles[f].by # entryIdx
             /\ instOut.kind # "ZipIndex" =>
                   /\ instOut.kind = "ZipFileBasename"
                   /\ instOut.detail = archive[entryIdx].name

\* an entry stored in a directory was persisted at its basename, and the
\* next entry has no basename
C16_Witness ==
    /\ Len(archive) = 2
    /\ archive[1].name = <<"a", "/", "t">>
    /\ archive[2].name = <<".", ".">>
    /\ instOut.kind = "ZipFileBasename"
    /\ entryIdx = 2
    /\ <<"t">> \in DOMAIN destFiles
    /\ destFiles[<<"t">>].by = 1

\* install returned an error while it processed entry entryIdx
FailedAtEntry ==
    /\ instPc = "Done"
    /\ instOut.kind # "Ok"
    /\ entryIdx >= 1

\* the mode of the file of an entry once its permissions step is over
ModeOf(entry) == IF entry.mode = NoMode THEN TempMode ELSE entry.mode

\* no entry after entryIdx was staged, checked or persisted, and the file
\* of entry entryIdx is in dir only if its permissions step failed
NothingAfterFailure ==
    /\ \A f \in DOMAIN destFiles : destFiles[f].by <= entryIdx
    /\ \A i \in crcPassed : i <= entryIdx
    /\ Len(extracted) = entryIdx - 1
    /\ (\E f \in DOMAIN destFiles : destFiles[f].by = entryIdx)
          => /\ instOut.at = "Permissions"
             /\ instOut.kind = "SetPermissions"

\* C17 as the specification words it: after a failure at entry i no later
\* entry was touched, every entry before i is at its destination with its
\* content and its permissions, and the file of entry i is there only if
\* its permissions step failed
C17_EarlierEntriesRemain ==
    FailedAtEntry =>
        /\ NothingAfterFailure
        /\ \A k \in 1..(entryIdx - 1) :
              LET f == FinalComponent(archive[k].name)
              IN /\ f \in DOMAIN destFiles
                 /\ destFiles[f].data = archive[k].data
                 /\ destFiles[f].mode = ModeOf(archive[k])

\* the entries up to entryIdx that were persisted at the basename f
PersistedAt(f) ==
    {j \in 1..entryIdx :
        /\ FinalComponent(archive[j].name) = f
        /\ j < entryIdx \/ instOut.at = "Permissions"}

\* C17, amended: after a failure at entry i no later entry was touched, the
\* file of entry i is there only if its permissions step failed, and at the
\* destination of every entry before i stands the file of the last entry
\* persisted under that basename, with that entry's content and
\* permissions (the entry itself unless a later one replaced it)
C17_EarlierEntriesRemainOrReplaced ==
    FailedAtEntry =>
        /\ NothingAfterFailure
        /\ \A k \in 1..(entryIdx - 1) :
              LET f == FinalComponent(archive[k].name)
                  last == CHOOSE j \in PersistedAt(f) :
                              \A m \in PersistedAt(f) : j >= m
              IN /\ f \in DOMAIN destFiles
                 /\ destFiles[f].by = last
                 /\ destFiles[f].data = archive[last].data
                 /\ destFiles[f].mode =
                       IF last = entryIdx THEN TempMode
                       ELSE ModeOf(archive[last])

\* the second entry failed in staging after the first, of another
\* basename, was persisted with its mode
C17_Witness ==
    /\ FailedAtEntry
    /\ entryIdx = 2
    /\ instOut.at \in StagingSteps
    /\ archive[1].name = <<"x">>
    /\ archive[2].name = <<"t">>
    /\ <<"x">> \in DOMAIN destFiles
    /\ destFiles[<<"x">>].by = 1
    /\ destFiles[<<"x">>].mode = ExecMode
    /\ destFiles[<<"t">>] = OldFile

\* C18: the entries are processed one at a time in the order of the
\* archive: while entry k is processed every entry before it was checked,
\* persisted, given its mode and pushed, and none after it was touched; the
\* list returned
\* on success has one basename per entry, in the order of the entries
C18_InOrderOnePerEntry ==
    /\ entryIdx \in 0..Len(archive)
    /\ instPc \in (StagingSteps \cup {"Basename", "Permissions"})
          => /\ entryIdx >= 1
             /\ Len(extracted) = entryIdx - 1
    /\ \A k \in 1..Len(extracted) :
          /\ extracted[k] = FinalComponent(archive[k].name)
          /\ k \in crcPassed
          /\ \E j \in k..Len(archive) :
                /\ FinalComponent(archive[j].name) = extracted[k]
                /\ destFiles[extracted[k]].by = j
          /\ destFiles[extracted[k]].by = k
                => destFiles[extracted[k]].mode = ModeOf(archive[k])
    /\ \A i \in crcPassed : i <= entryIdx
    /\ \A f \in DOMAIN destFiles : destFiles[f].by <= entryIdx
    /\ tempFile.exists => instPc \in (StagingSteps \cup {"Done"})
    /\ instOut.kind = "Ok" =>
          /\ Len(instOut.detail) = Len(archive)
          /\ \A k \in 1..Len(archive) :
                instOut.detail[k] = FinalComponent(archive[k].name)

\* two entries of one basename were installed
C18_Witness ==
    /\ instOut.kind = "Ok"
    /\ Len(archive) = 2
    /\ archive[1].name = <<"t">>
    /\ archive[2].name = <<"a", "/", "t">>
    /\ instOut.detail = <<<<"t">>, <<"t">>>>

\* C19: once install has returned no temp file of the run is in dir, and a
\* failure in staging, in the CRC check or in the persist of an entry
\* leaves no temp file and no file of that entry in dir
C19_NoTempLeftBehind ==
    /\ instPc = "Done" => ~tempFile.exists
    /\ (FailedAtEntry /\ instOut.at \in StagingSteps)
          => /\ ~tempFile.exists
             /\ \A f \in DOMAIN destFiles : destFiles[f].by # entryIdx

\* C29: install returns SetPermissions only from the step that sets the
\* mode of a file it has persisted; a failure to create the temp file or to
\* copy the entry into it gives another kind of error
C29_SetPermissionsOnlyForMode ==
    /\ instOut.kind = "SetPermissions" => instOut.at = "Permissions"
    /\ (instPc = "Done" /\ instOut.at \in {"CreateTemp", "Copy"})
          => instOut.kind # "SetPermissions"

\* the rename of the temp file of entry j has succeeded
PersistedNow(j) ==
    \/ j < entryIdx
    \/ /\ j = entryIdx
       /\ \/ instPc = "Permissions"
          \/ instPc = "Done" /\ instOut.at = "Permissions"

\* the entries persisted so far whose stored name has the basename f
PersistedAs(f) ==
    {j \in 1..Len(archive) :
        PersistedNow(j) /\ FinalComponent(archive[j].name) = f}

\* C30: entries of one basename do not make install fail: the file at
\* dir/basename is the one of the last entry persisted under this
\* basename, an entry whose CRC32 passed, with this entry's content; and
\* the list returned on success names the basename once per entry
C30_LastDuplicateWins ==
    /\ \A j \in 1..Len(archive) :
          PersistedNow(j) =>
             LET f == FinalComponent(archive[j].name)
                 last == CHOOSE m \in PersistedAs(f) :
                             \A n \in PersistedAs(f) : m >= n
             IN /\ f \in DOMAIN destFiles
                /\ destFiles[f].by = last
                /\ destFiles[f].data = archive[last].data
                /\ last \in crcPassed
    /\ instOut.kind = "Ok" =>
          \A j \in 1..Len(archive) :
             LET f == FinalComponent(archive[j].name)
             IN Cardinality({k \in DOMAIN instOut.detail :
                                 instOut.detail[k] = f})
                  = Cardinality({m \in 1..Len(archive) :
                                    FinalComponent(archive[m].name) = f})

\* two entries of one basename and of different content were installed
C30_Witness ==
    /\ instOut.kind = "Ok"
    /\ Len(archive) = 2
    /\ archive[1].name = <<"a", "/", "t">>
    /\ archive[2].name = <<"t">>
    /\ archive[1].data = <<1>>
    /\ archive[2].data = <<1, 2>>
    /\ destFiles[<<"t">>].by = 2
    /\ destFiles[<<"t">>].data = <<1, 2>>
    /\ instOut.detail = <<<<"t">>, <<"t">>>>

\* ------------------------------------------------------------------------
\* The pipeline of main (src/src/main.rs), from the fetch of the manifest
\* ------------------------------------------------------------------------

\* hex::encode of the SHA-256 of the bytes: one digit per byte, a different
\* text for every content of the model
RECURSIVE Sha256Hex(_)
Sha256Hex(bytes) ==
    IF bytes = <<>> THEN <<>>
    ELSE Sha256Hex(Tail(bytes)) \o <<IF Head(bytes) = 1 THEN "a" ELSE "b">>

\* the result of get_shasum: the panic of unwrap, or the digest
ShasumPanic == [panic |-> TRUE, digest |-> <<>>]
ShasumIs(d) == [panic |-> FALSE, digest |-> d]

\* get_shasum: the first column of the first line that ends with the name
get_shasum(text, name) ==
    LET found == SelectSeq(Lines(text), LAMBDA l : EndsWith(l, name))
    IN IF found = <<>> THEN ShasumPanic
       ELSE LET sum == SplitWhitespace(found[1])
            IN IF sum = <<>> THEN ShasumPanic ELSE ShasumIs(sum[1])

\* the result of check_sha256 on a file that was read without I/O error
check_sha256(digest, bytes) ==
    IF Sha256Hex(bytes) = digest THEN "Good" ELSE "Bad"

\* exit statuses: Ok(()) from main, Err from main or exit(1), a panic
ExitOk == 0
ExitFailure == 1
ExitPanic == 101

InitMain ==
    /\ mainPc = "get_shasums"
    /\ content = <<>>
    /\ filename \in Filenames
    /\ sigGood \in BOOLEAN
    /\ served \in Contents
    /\ doInstall \in BOOLEAN
    /\ cwdFile = NoFile
    /\ mainShasum = <<>>
    /\ ran = {}
    /\ passed = {}
    /\ exitStatus = Alive
    /\ parseOut = NotParsed
    /\ shasumOut = NotCalled
    /\ IdleSig
    /\ IdleInstall
    /\ IdleTmp
    /\ IdleCrc

\* the process ends with the given status
Exit(status) ==
    /\ mainPc' = "exit"
    /\ exitStatus' = status

\* let shasums = get_shasums(&shasums_url).await?
MainGetShasums ==
    /\ mainPc = "get_shasums"
    /\ \/ /\ \E text \in TextsUpTo(MaxManifestLen) : content' = text
          /\ mainPc' = "check_shasum_sig"
          /\ UNCHANGED exitStatus
       \/ Exit(ExitFailure) /\ UNCHANGED content
    /\ UNCHANGED <<filename, sigGood, served, doInstall, cwdFile, mainShasum,
                   ran, passed, notMain>>

\* a signature check whose error is printed but not returned
MainCheckShasumSigWarnOnly ==
    /\ mainPc = "check_shasum_sig"
    /\ \/ /\ ran' = ran \cup {"signature"}
          /\ passed' = IF sigGood THEN passed \cup {"signature"} ELSE passed
          /\ mainPc' = "get_shasum"
          /\ UNCHANGED exitStatus
       \/ Exit(ExitFailure) /\ UNCHANGED <<ran, passed>>
    /\ UNCHANGED <<content, filename, sigGood, served, doInstall, cwdFile,
                   mainShasum, notMain>>

\* check_shasum_sig(&shasums_sig, &shasums).await?: the signature is
\* verified over the text as fetched
MainCheckShasumSig ==
    /\ mainPc = "check_shasum_sig"
    /\ \/ /\ ran' = ran \cup {"signature"}
          /\ IF sigGood
             THEN /\ passed' = passed \cup {"signature"}
                  /\ mainPc' = "get_shasum"
                  /\ UNCHANGED exitStatus
             ELSE Exit(ExitFailure) /\ UNCHANGED passed
       \/ \* the fetch of the signature fails
          Exit(ExitFailure) /\ UNCHANGED <<ran, passed>>
    /\ UNCHANGED <<content, filename, sigGood, served, doInstall, cwdFile,
                   mainShasum, notMain>>

\* a lookup in a manifest that is fetched again
MainGetShasumRefetches ==
    /\ mainPc = "get_shasum"
    /\ ran' = ran \cup {"lookup"}
    /\ \E text \in TextsUpTo(MaxManifestLen) : content' = text
    /\ LET r == get_shasum(content', filename)
       IN IF r.panic
          THEN Exit(ExitPanic) /\ UNCHANGED <<passed, mainShasum>>
          ELSE /\ mainShasum' = r.digest
               /\ passed' = passed \cup {"lookup"}
               /\ mainPc' = "download_file"
               /\ UNCHANGED exitStatus
    /\ UNCHANGED <<filename, sigGood, served, doInstall, cwdFile,
                   notMain>>

\* let shasum = get_shasum(&shasums, filename).await?
MainGetShasum ==
    /\ mainPc = "get_shasum"
    /\ ran' = ran \cup {"lookup"}
    /\ LET r == get_shasum(content, filename)
       IN IF r.panic
          THEN Exit(ExitPanic) /\ UNCHANGED <<passed, mainShasum>>
          ELSE /\ mainShasum' = r.digest
               /\ passed' = passed \cup {"lookup"}
               /\ mainPc' = "download_file"
               /\ UNCHANGED exitStatus
    /\ UNCHANGED <<content, filename, sigGood, served, doInstall, cwdFile,
                   notMain>>

\* download_file: File::create(&path)? on the final name, then the GET
MainDownloadCreate ==
    /\ mainPc = "download_file"
    /\ ran' = ran \cup {"download"}
    /\ \/ /\ cwdFile' = [exists |-> TRUE, data |-> <<>>]
          /\ \/ mainPc' = "chunks" /\ UNCHANGED exitStatus
             \/ Exit(ExitFailure)
       \/ Exit(ExitFailure) /\ UNCHANGED cwdFile
    /\ UNCHANGED <<content, filename, sigGood, served, doInstall, mainShasum,
                   passed, notMain>>

\* download_file: one round of while let Some(chunk) = resp.chunk().await?
MainDownloadChunk ==
    /\ mainPc = "chunks"
    /\ \/ /\ Len(cwdFile.data) < Len(served)
          /\ cwdFile' = [exists |-> TRUE,
                         data |-> Append(cwdFile.data,
                                         served[Len(cwdFile.data) + 1])]
          /\ UNCHANGED <<mainPc, exitStatus, passed>>
       \/ /\ Len(cwdFile.data) < Len(served)
          /\ Exit(ExitFailure)
          /\ UNCHANGED <<cwdFile, passed>>
       \/ /\ Len(cwdFile.data) = Len(served)
          /\ passed' = passed \cup {"download"}
          /\ mainPc' = "check_sha256"
          /\ UNCHANGED <<cwdFile, exitStatus>>
    /\ UNCHANGED <<content, filename, sigGood, served, doInstall, mainShasum,
                   ran, notMain>>

\* a checksum match whose Bad arm prints and falls through
MainCheckSha256NoExit ==
    /\ mainPc = "check_sha256"
    /\ \/ /\ ran' = ran \cup {"checksum"}
          /\ passed' = IF check_sha256(mainShasum, cwdFile.data) = "Good"
                       THEN passed \cup {"checksum"} ELSE passed
          /\ IF doInstall
             THEN mainPc' = "install" /\ UNCHANGED exitStatus
             ELSE Exit(ExitOk)
       \/ Exit(ExitFailure) /\ UNCHANGED <<ran, passed>>
    /\ UNCHANGED <<content, filename, sigGood, served, doInstall, cwdFile,
                   mainShasum, notMain>>

\* match check_sha256(&shasum, filename)?: Bad prints and calls exit(1)
MainCheckSha256 ==
    /\ mainPc = "check_sha256"
    /\ \/ /\ ran' = ran \cup {"checksum"}
          /\ IF check_sha256(mainShasum, cwdFile.data) = "Good"
             THEN /\ passed' = passed \cup {"checksum"}
                  /\ IF doInstall
                     THEN mainPc' = "install" /\ UNCHANGED exitStatus
                     ELSE Exit(ExitOk)
             ELSE Exit(ExitFailure) /\ UNCHANGED passed
       \/ \* File::open or the read of the file fails
          Exit(ExitFailure) /\ UNCHANGED <<ran, passed>>
    /\ UNCHANGED <<content, filename, sigGood, served, doInstall, cwdFile,
                   mainShasum, notMain>>

\* if do_install { install(filename, product, &bin_dir)?; }
MainInstall ==
    /\ mainPc = "install"
    /\ ran' = ran \cup {"install"}
    /\ \/ passed' = passed \cup {"install"} /\ Exit(ExitOk)
       \/ UNCHANGED passed /\ Exit(ExitFailure)
       \/ UNCHANGED passed /\ Exit(ExitPanic)
    /\ UNCHANGED <<content, filename, sigGood, served, doInstall, cwdFile,
                   mainShasum, notMain>>

NextMain ==
    \/ MainGetShasums
    \/ MainCheckShasumSig
    \/ MainGetShasum
    \/ MainDownloadCreate
    \/ MainDownloadChunk
    \/ MainCheckSha256
    \/ MainInstall

SpecMain == InitMain /\ [][NextMain]_vars

\* some line of the manifest has a number of columns other than two
MalformedManifest(t) == \E p \in LineStarts(t) : ColumnCount(t, p) # 2

C3_NoFileBeforeChecksum ==
    cwdFile.exists => "checksum" \in passed

\* a step of the sequence was executed and did not succeed
SignatureFailed == "signature" \in ran \ passed
DigestNotFound == "lookup" \in ran \ passed
ChecksumBad == "checksum" \in ran \ passed

\* C4: when the signature does not verify, the digest of the file is not
\* found, or the checksum is Bad, the process ends with a non-zero status
\* and install is never invoked
C4_FailureStopsRun ==
    (SignatureFailed \/ DigestNotFound \/ ChecksumBad) =>
        /\ mainPc = "exit"
        /\ exitStatus \notin {Alive, ExitOk}
        /\ "install" \notin ran

\* a Bad checksum has ended a run that was asked to install
C4_Witness ==
    /\ ChecksumBad
    /\ doInstall
    /\ exitStatus = ExitFailure

\* C6 (as claimed): on a manifest with a line that does not have two
\* columns, neither the signature check nor a checksum comparison runs
C6_MalformedAbortsFirst ==
    MalformedManifest(content) =>
        ("signature" \notin ran /\ "checksum" \notin ran)

\* C27: the lookup of main succeeds only with the digest of a line whose
\* filename column is the requested filename, and fails when no line has
\* this filename
C27_MainLookupExact ==
    /\ "lookup" \in passed =>
          \E p \in LinesNaming(content, filename) :
              mainShasum = DigestOf(content, p)
    /\ ("lookup" \in ran /\ LinesNaming(content, filename) = {}) =>
          /\ "lookup" \notin passed
          /\ exitStatus = ExitPanic

\* C28: the manifest is fetched once, by get_shasums, and no later step of
\* main changes the text: the signature check and the lookup read the
\* same bytes
C28_ManifestFixed ==
    [][/\ content' # content => mainPc = "get_shasums"
       /\ mainPc # "get_shasums" => mainPc' # "get_shasums"]_vars

\* the signature was verified and the digest looked up in a manifest
C28_Witness ==
    /\ "signature" \in passed
    /\ "lookup" \in passed
    /\ content = <<"a", " ", "a">>
    /\ mainShasum = <<"a">>

\* ------------------------------------------------------------------------
\* The staged download (src/src/tmpfile.rs), its checksum check
\* (src/src/shasums.rs) and its download (src/src/client.rs)
\* ------------------------------------------------------------------------

\* the characters of the manifests a staged file is checked against: a hex
\* digit in both letter cases and the blank
CheckChars == {"a", "A", " "}

\* the filenames of the staged files: one the manifests can name, one they
\* cannot
StagedNames == {<<"a">>, <<"b">>}

\* the bodies the server sends: their digests are "a" and "aa"
Bodies == {<<1>>, <<1, 1>>}

\* permission bits: -rw-r--r-- given to OpenOptions, and the bits of a file
\* that was at the final name before
PersistMode == 420
FormerMode == 384

\* a file that was at the final name before
FormerFile == [exists |-> TRUE, data |-> <<2, 2, 2>>, mode |-> FormerMode]

\* what a write of the bytes at the offset makes of the old bytes of a file
WriteAt(old, at, bytes) ==
    SubSeq(old, 1, at) \o bytes \o SubSeq(old, at + Len(bytes) + 1, Len(old))

\* a handle that keeps the offset the earlier reads and writes left
TmpHandleNoSeek(pos) == pos

\* TmpFile::handle: the offset of the handle it returns
TmpHandle(pos) == 0

\* a call on the TmpFile and what it returned
Call(op, out, detail, start, seen) ==
    [op |-> op, out |-> out, detail |-> detail, start |-> start, seen |-> seen]

InitTmp ==
    /\ content \in UNION {[1..k -> CheckChars] : k \in 0..MaxCheckLen}
    /\ filename \in StagedNames
    /\ parseOut = NotParsed
    /\ shasumOut = NotCalled
    /\ tmpExists = TRUE
    /\ tmpData = <<>>
    /\ tmpPos = 0
    /\ lastOp = NoOp
    /\ prevOp = NoPrev
    /\ finalFile \in {NoFinal, FormerFile}
    /\ IdleSig
    /\ IdleInstall
    /\ IdleMain
    /\ IdleCrc

\* every call leaves the call before it in prevOp; the calls borrow the
\* TmpFile (&mut self, &mut TmpFile), so none of them drops the
\* NamedTempFile
Returns(call) ==
    /\ lastOp' = call
    /\ prevOp' = [op |-> lastOp.op,
                  verdict |-> IF \/ lastOp.out \in {"OK", "Bad"}
                                 \/ lastOp.op = "persist" /\ lastOp.out = "Ok"
                              THEN lastOp.out
                              ELSE "none"]
    /\ UNCHANGED <<content, filename, tmpExists, notTmp>>

\* Client::download: the body arrives in chunks that are written through a
\* BufWriter on the handle; n bytes reach the file. The BufWriter is dropped
\* without flush, so a write error of the last bytes is not reported.
TmpDownload ==
    \/ /\ Returns(Call("download", "TmpFileError", <<>>, -1, <<>>))
       /\ UNCHANGED <<tmpData, tmpPos, finalFile>>
    \/ LET start == TmpHandle(tmpPos)
       IN \/ /\ tmpPos' = start
             /\ Returns(Call("download", "GetError", <<>>, start, <<>>))
             /\ UNCHANGED <<tmpData, finalFile>>
          \/ \E body \in Bodies : \E n \in 0..Len(body) :
              \E out \in {"Ok", "Chunk", "IoError"} :
                 /\ out = "Chunk" => n < Len(body)
                 /\ tmpData' = WriteAt(tmpData, start, SubSeq(body, 1, n))
                 /\ tmpPos' = start + n
                 /\ Returns(Call("download", out, <<>>, start, <<>>))
                 /\ UNCHANGED finalFile

\* a check that takes a file the manifest does not name for a bad one
NoShasumAsBad(name) == Call("check", "Bad", <<>>, -1, <<>>)

\* Shasums::check, the lookup failed: "Couldn't find shasum for {filename}"
NoShasumFor(name) == Call("check", "NoShasum", name, -1, <<>>)

\* Shasums::check, the comparison: hex::encode(hash) == shasum
Checksum(hex, digest) == IF hex = digest THEN "OK" ELSE "Bad"

\* Shasums::check
ShasumsCheck ==
    LET found == shasum(content, filename)
    IN \/ /\ found.kind = "Panic"
          /\ Returns(Call("check", "Panic", <<>>, -1, <<>>))
          /\ UNCHANGED <<tmpData, tmpPos, finalFile>>
       \/ /\ found.kind = "None"
          /\ Returns(NoShasumFor(filename))
          /\ UNCHANGED <<tmpData, tmpPos, finalFile>>
       \/ /\ found.kind = "Some"
          /\ \/ /\ Returns(Call("check", "TmpFileError", <<>>, -1, <<>>))
                /\ UNCHANGED <<tmpData, tmpPos, finalFile>>
             \/ LET start == TmpHandle(tmpPos)
                IN \/ \E n \in start..Len(tmpData) :
                        /\ tmpPos' = n
                        /\ Returns(Call("check", "IoError", <<>>, start,
                                        SubSeq(tmpData, start + 1, n)))
                        /\ UNCHANGED <<tmpData, finalFile>>
                   \/ LET seen == SubSeq(tmpData, start + 1, Len(tmpData))
                      IN /\ tmpPos' = Len(tmpData)
                         /\ Returns(Call("check",
                                Checksum(Sha256Hex(seen), found.digest),
                                <<>>, start, seen))
                         /\ UNCHANGED <<tmpData, finalFile>>

\* the final file once OpenOptions has opened it: created with the mode
\* given, or truncated with the mode it had
Opened(file) ==
    [exists |-> TRUE, data |-> <<>>,
     mode |-> IF file.exists THEN file.mode ELSE PersistMode]

\* TmpFile::persist: n bytes are read from the handle and w of them reach
\* the final file. The BufWriter is dropped without flush, so a write error
\* of the last bytes is not reported.
TmpPersist ==
    \/ /\ Returns(Call("persist", "IoError", <<>>, -1, <<>>))
       /\ UNCHANGED <<tmpData, tmpPos, finalFile>>
    \/ /\ finalFile' = Opened(finalFile)
       /\ Returns(Call("persist", "IoError", <<>>, -1, <<>>))
       /\ UNCHANGED <<tmpData, tmpPos>>
    \/ LET start == TmpHandle(tmpPos)
       IN \E n \in start..Len(tmpData) : \E w \in 0..(n - start) :
           \E out \in {"Ok", "IoError"} :
              LET seen == SubSeq(tmpData, start + 1, n)
              IN /\ out = "Ok" => n = Len(tmpData)
                 /\ tmpPos' = n
                 /\ finalFile' = [Opened(finalFile) EXCEPT
                                      !.data = SubSeq(seen, 1, w)]
                 /\ Returns(Call("persist", out, <<>>, start, seen))
                 /\ UNCHANGED tmpData

NextTmp ==
    \/ TmpDownload
    \/ ShasumsCheck
    \/ TmpPersist

SpecTmp == InitTmp /\ [][NextTmp]_vars

\* C11: a check of a staged file whose filename stands on no line of a
\* manifest that parses returns the error that names the filename, never
\* OK and never Bad, whatever was downloaded into the file
C11_AbsentFilenameIsError ==
    (/\ lastOp.op = "check"
     /\ WellFormed(content)
     /\ LinesNaming(content, filename) = {})
        => /\ lastOp.out = "NoShasum"
           /\ lastOp.detail = filename

C11_Witness ==
    /\ lastOp.op = "check"
    /\ content = <<"a", " ", "a">>
    /\ filename = <<"b">>
    /\ tmpData = <<1>>
    /\ lastOp.out = "NoShasum"

\* the text with its letters in lower case
Lower(t) == [i \in DOMAIN t |-> IF t[i] = "A" THEN "a" ELSE t[i]]

\* C12: a check that read the whole file returns OK exactly when the hex
\* SHA-256 of the content and the digest of the manifest are equal once
\* both are put in lower case, and Bad otherwise, a proper prefix included
C12_CaseInsensitiveMatch ==
    (lastOp.op = "check" /\ lastOp.out \in {"OK", "Bad"})
        => (lastOp.out = "OK"
              <=> Lower(Sha256Hex(tmpData))
                    = Lower(shasum(content, filename).digest))

\* C20: every handle that is returned stands at offset 0 whatever was read
\* or written before, so a download writes from the first byte, a check and
\* a persist that end without error have read the whole staged content, the
\* verdict is the one of the whole content, and a check that follows a
\* check gives the same verdict
C20_HandleRewinds ==
    /\ lastOp.start \in {-1, 0}
    /\ (lastOp.op = "download" /\ lastOp.start # -1)
          => tmpPos <= Len(tmpData)
    /\ (lastOp.op = "check" /\ lastOp.out \in {"OK", "Bad"})
          => /\ lastOp.seen = tmpData
             /\ lastOp.out = Checksum(Sha256Hex(tmpData),
                                      shasum(content, filename).digest)
    /\ (lastOp.op = "persist" /\ lastOp.out = "Ok")
          => lastOp.seen = tmpData
    /\ (/\ lastOp.op = "check"
        /\ prevOp.op = "check"
        /\ lastOp.out \in {"OK", "Bad"}
        /\ prevOp.verdict # "none")
          => lastOp.out = prevOp.verdict

C20_Witness ==
    /\ lastOp.op = "check"
    /\ prevOp.op = "check"
    /\ prevOp.verdict = "OK"
    /\ lastOp.out = "OK"
    /\ lastOp.start = 0
    /\ tmpData = <<1>>

\* C21: a persist that returned Ok read the staged content from offset 0
\* to its end and left at the final name a file that holds exactly this
\* content, nothing of what was there before, with the mode rw-r--r--
C21_PersistWritesAll ==
    (lastOp.op = "persist" /\ lastOp.out = "Ok") =>
        /\ lastOp.start = 0
        /\ lastOp.seen = tmpData
        /\ finalFile.exists
        /\ finalFile.data = tmpData
        /\ finalFile.mode = PersistMode

\* C22: once persist has returned Ok the NamedTempFile is gone, and the
\* call that follows obtains no handle on it
C22_TempGoneAfterPersist ==
    /\ (lastOp.op = "persist" /\ lastOp.out = "Ok") => ~tmpExists
    /\ (prevOp.op = "persist" /\ prevOp.verdict = "Ok") => lastOp.start = -1

\* ------------------------------------------------------------------------
\* The read loop of crc32::check (src/src/crc32.rs)
\* ------------------------------------------------------------------------

\* the files whose CRC32 is checked
FileContents == UNION {[1..k -> {1, 2}] : k \in 0..MaxFileLen}

\* the state of Hasher::new
HasherNew == 7

\* reader.read returned Err
ReadErr == -1

\* Crc32Error::IoError
CrcIoError == [kind |-> "IoError", got |-> 0, want |-> 0]

\* the bytes read so far
RECURSIVE SumReads(_)
SumReads(reads) ==
    IF reads = <<>> THEN 0
    ELSE (IF Head(reads) = ReadErr THEN 0 ELSE Head(reads))
         + SumReads(Tail(reads))

InitCrc ==
    /\ crcFile \in [opens : BOOLEAN, data : FileContents]
    /\ crcExpected \in {Crc32(d) : d \in FileContents}
    /\ crcPc = "Open"
    /\ crcReads = <<>>
    /\ crcHasher = 0
    /\ crcOut = CrcRunning
    /\ IdleShasums
    /\ IdleSig
    /\ IdleInstall
    /\ IdleMain
    /\ IdleTmp

\* crc32::check returns
CrcReturns(out) ==
    /\ crcOut' = out
    /\ crcPc' = "Done"

\* File::open(&path)?, BufReader::new, Hasher::new
Crc32Open ==
    /\ crcPc = "Open"
    /\ \/ /\ ~crcFile.opens
          /\ CrcReturns(CrcIoError)
          /\ UNCHANGED crcHasher
       \/ /\ crcFile.opens
          /\ crcHasher' = HasherNew
          /\ crcPc' = "Read"
          /\ UNCHANGED crcOut
    /\ UNCHANGED <<crcFile, crcExpected, crcReads, notCrc>>

\* a comparison that reports the expected value first
Crc32CompareSwapped(result, expected) ==
    IF result # expected
    THEN [kind |-> "UnexpectedCrc32", got |-> expected, want |-> result]
    ELSE [kind |-> "Ok", got |-> 0, want |-> 0]

\* if result != expected { Err(UnexpectedCrc32(result, expected)) } Ok(())
Crc32Compare(result, expected) ==
    IF result # expected
    THEN [kind |-> "UnexpectedCrc32", got |-> result, want |-> expected]
    ELSE [kind |-> "Ok", got |-> 0, want |-> 0]

\* a read error that ends the loop like the end of the file
ReadErrorBreaks(h, expected) == Crc32Compare(h, expected)

\* reader.read(&mut buf)? on Err: the error leaves check through ?
ReadError(h, expected) == CrcIoError

\* reader.read(&mut buf)? returns n > 0 bytes, at most the buffer, and
\* hasher.update(&buf[..n])
Crc32Read ==
    /\ crcPc = "Read"
    /\ LET pos == SumReads(crcReads)
           left == Len(crcFile.data) - pos
       IN \E n \in 1..(IF left < BUFFER_SIZE THEN left ELSE BUFFER_SIZE) :
             /\ crcReads' = Append(crcReads, n)
             /\ crcHasher' = HasherUpdate(crcHasher,
                                 SubSeq(crcFile.data, pos + 1, pos + n))
    /\ UNCHANGED <<crcFile, crcExpected, crcPc, crcOut, notCrc>>

\* reader.read(&mut buf)? returns Err
Crc32ReadFails ==
    /\ crcPc = "Read"
    /\ crcReads' = Append(crcReads, ReadErr)
    /\ CrcReturns(ReadError(crcHasher, crcExpected))
    /\ UNCHANGED <<crcFile, crcExpected, crcHasher, notCrc>>

\* reader.read(&mut buf)? returns 0 at the end of the file: break, finalize
\* and the comparison
Crc32Eof ==
    /\ crcPc = "Read"
    /\ SumReads(crcReads) = Len(crcFile.data)
    /\ crcReads' = Append(crcReads, 0)
    /\ CrcReturns(Crc32Compare(crcHasher, crcExpected))
    /\ UNCHANGED <<crcFile, crcExpected, crcHasher, notCrc>>

NextCrc ==
    \/ Crc32Open
    \/ Crc32Read
    \/ Crc32ReadFails
    \/ Crc32Eof

SpecCrc == InitCrc /\ [][NextCrc]_vars

\* some read returned an error
ReadFailed == \E i \in DOMAIN crcReads : crcReads[i] = ReadErr

\* C13: when the file opens and every read succeeds, check returns Ok if
\* and only if the CRC32 of the whole content is the expected value, however
\* the content was split across reads of at most BUFFER_SIZE bytes, and
\* otherwise UnexpectedCrc32 with the computed value first and the expected
\* value second
C13_OkIffCrcMatches ==
    /\ \A i \in DOMAIN crcReads : crcReads[i] <= BUFFER_SIZE
    /\ crcPc = "Read" =>
          crcHasher = HasherUpdate(HasherNew,
                          SubSeq(crcFile.data, 1, SumReads(crcReads)))
    /\ (crcPc = "Done" /\ crcFile.opens /\ ~ReadFailed)
          => /\ SumReads(crcReads) = Len(crcFile.data)
             /\ crcOut.kind = "Ok" <=> Crc32(crcFile.data) = crcExpected
             /\ crcOut.kind # "Ok"
                   => crcOut = [kind |-> "UnexpectedCrc32",
                                got |-> Crc32(crcFile.data),
                                want |-> crcExpected]

\* a file of several reads whose CRC32 is not the expected one
C13_Witness ==
    /\ crcPc = "Done"
    /\ crcReads = <<1, 2, 1, 0>>
    /\ crcOut.kind = "UnexpectedCrc32"
    /\ crcOut.got # crcOut.want

\* C14: when the file does not open or some read fails, check returns
\* IoError, never Ok and never UnexpectedCrc32; and a result of Ok or
\* UnexpectedCrc32 comes from the CRC32 of the whole file, never from the
\* bytes read before a failure
C14_IoErrorNeverCompared ==
    /\ (crcPc = "Done" /\ (~crcFile.opens \/ ReadFailed))
          => crcOut = CrcIoError
    /\ crcOut.kind \in {"Ok", "UnexpectedCrc32"}
          => /\ crcFile.opens
             /\ ~ReadFailed
             /\ SumReads(crcReads) = Len(crcFile.data)

\* a read that fails after part of the file was read, the part having the
\* expected CRC32
C14_Witness ==
    /\ crcPc = "Done"
    /\ crcReads = <<2, 1, ReadErr>>
    /\ Len(crcFile.data) = 4
    /\ crcHasher = crcExpected
    /\ crcOut = CrcIoError

====
